---- MODULE Spec2Model ----
(***************************************************************************)
(* The Windows service dispatch layer of the `service` crate               *)
(* (service/src/windows.rs): the dispatcher entry point (run_service and   *)
(* the entry generated by ServiceAsyncMacro), the control handlers         *)
(* (service_handler, service_handler_async), the status reporter           *)
(* (set_service_status), the shared SERVICE_HANDLE and the event channel,  *)
(* together with the hosted bodies of the two example programs.            *)
(***************************************************************************)
EXTENDS Integers, Sequences, FiniteSets, TLC

(***************************************************************************)
(* Bounds of the environment.                                              *)
(***************************************************************************)
\* Control signals the OS delivers in one run.
MaxSignals == 2
\* Signals beyond the channel capacity that the flooding OS delivers.
FloodExtra == 1
\* Extra arguments the service is configured with, after its name.
MaxExtraArgs == 2
\* Controls the OS calls the handler with, one call at a time.
MaxControls == 2
\* Calls an administrator makes to the Platform Controller.
MaxOps == 3
\* Status queries for which the service manager still answers "pending".
MaxPolls == 2

(***************************************************************************)
(* Program constants.                                                      *)
(***************************************************************************)
\* tokio::sync::mpsc::channel(10)
ChannelCapacity == 10
\* winapi::shared::winerror::ERROR_CALL_NOT_IMPLEMENTED
ERROR_CALL_NOT_IMPLEMENTED == 120
\* the wait hint of the handler's SERVICE_STOP_PENDING report
StopWaitHint == 10

\* std::ptr::null_mut(): the unset status handle, and what a rejected
\* registration returns.
NullHandle == "null"
\* The handle a successful RegisterServiceCtrlHandlerExW returns.
RegisteredHandle == "hService"

\* The OS threads on which the control handler can run at the same time.
HandlerThreads == {"os1", "os2"}

\* The two hosting flavours: run_service and ServiceAsyncMacro.
Flavors == {"sync", "async"}

\* The hosted bodies: "poll" is the examples' body (poll the receiver, leave
\* on Stop); "never" neither polls nor returns; "ret" returns by itself;
\* "panic" panics.
BodyKinds == {"poll", "never", "ret", "panic"}

VARIABLES
    flavor,         \* which entry point the process was built with
    bodyKind,       \* which body is hosted
    dpc,            \* the dispatcher thread's position in the entry point
    handle,         \* the entry point's local `handle`
    SERVICE_HANDLE, \* the value inside the process-wide Mutex
    mutex,          \* who holds the SERVICE_HANDLE mutex ("free" if nobody)
    chan,           \* the events queued in the event channel
    bpc,            \* the hosted body: notstarted, running, returned, panicked
    received,       \* the events the body has taken from its receiver
    hpc,            \* each handler thread's position in the handler
    hctl,           \* each handler thread's current control input
    hret,           \* each handler thread's last return code
    log,            \* every SetServiceStatus call made, in order
    nSig,           \* control signals delivered so far
    mpc,            \* the main thread's position in Service::dispatch
    dispatchResult, \* what Service::dispatch returned to main
    argv,           \* the argument vector the OS passes to the entry point
    scmRejects,     \* the states whose SetServiceStatus call the OS fails
    bodyArgs,       \* the argument vector the hosted body was given
    unitFile,       \* Linux: the file at <systemd_path>/<name>.service
    linuxOp,        \* Linux: the last controller call and what it returned
    lastSuccess,    \* Linux: the last of create/delete that returned Ok
    nOps,           \* controller calls made so far
    winService,     \* Windows: the service manager's entry for the name
    winState,       \* Windows: the state the service manager holds for it
    logSource,      \* Windows: whether the event log source is registered
    wpc,            \* Windows: the controller's position in start/stop
    service_status, \* Windows: the local SERVICE_STATUS.dwCurrentState
    winOp,          \* Windows: the current or last controller call
    androidOp,      \* Android: the last controller call and what it returned
    backend         \* the OS the crate was built for (cfg(target_os))

\* The main thread and what the OS decides for the process: its arguments
\* and the status calls it fails.
mainVars == <<mpc, dispatchResult, argv, scmRejects>>

\* The Platform Controller, on both backends.
linuxVars == <<unitFile, linuxOp, lastSuccess>>
winVars == <<winService, winState, logSource, wpc, service_status, winOp>>
androidVars == <<androidOp>>
ctlVars == <<linuxVars, winVars, androidVars, backend, nOps>>

\* The service process while it is dispatched.
serviceVars == <<flavor, bodyKind, dpc, handle, SERVICE_HANDLE, mutex, chan,
                 bpc, received, hpc, hctl, hret, log, nSig, bodyArgs>>

vars == <<serviceVars, mainVars, ctlVars>>

(***************************************************************************)
(* Control inputs and events.                                              *)
(***************************************************************************)
\* The session sub-reasons the handlers know.
SessionReasons ==
    {"WTS_CONSOLE_CONNECT", "WTS_CONSOLE_DISCONNECT", "WTS_REMOTE_CONNECT",
     "WTS_REMOTE_DISCONNECT", "WTS_SESSION_LOGON", "WTS_SESSION_LOGOFF",
     "WTS_SESSION_LOCK", "WTS_SESSION_UNLOCK"}

Signal(control, event_type, session_id) ==
    [control |-> control, event_type |-> event_type, session_id |-> session_id]

NoSignal == Signal("none", "none", 0)

StopSignals ==
    {Signal("SERVICE_CONTROL_STOP", "none", 0),
     Signal("SERVICE_CONTROL_SHUTDOWN", "none", 0)}

\* The other controls the OS delivers in the general environment.
OtherSignals ==
    {Signal("SERVICE_CONTROL_PAUSE", "none", 0),
     Signal("SERVICE_CONTROL_SESSIONCHANGE", "WTS_SESSION_LOCK", 1),
     Signal("SERVICE_CONTROL_INTERROGATE", "none", 0)}

\* The controls of the general environment.
Signals == StopSignals \cup OtherSignals

\* The flooding environment repeats the Stop control.
FloodSignals == {Signal("SERVICE_CONTROL_STOP", "none", 0)}

\* Pause and Continue.
PauseSignals ==
    {Signal("SERVICE_CONTROL_PAUSE", "none", 0),
     Signal("SERVICE_CONTROL_CONTINUE", "none", 0)}

\* WTSSESSION_NOTIFICATION.dwSessionId
SessionIds == {1, 2}

\* A session sub-reason the handlers have no arm for.
UnknownReasons == {"WTS_SESSION_REMOTE_CONTROL"}

\* Session changes: every sub-reason, for every session.
SessionSignals ==
    {Signal("SERVICE_CONTROL_SESSIONCHANGE", reason, id) :
        reason \in SessionReasons \cup UnknownReasons, id \in SessionIds}

\* Controls the handlers have no arm for.
UnhandledSignals ==
    {Signal("SERVICE_CONTROL_INTERROGATE", "none", 0),
     Signal("SERVICE_CONTROL_PARAMCHANGE", "none", 0),
     Signal("SERVICE_CONTROL_POWEREVENT", "WTS_SESSION_LOCK", 1)}

\* Every control the OS can call the handler with.
AllSignals ==
    StopSignals \cup PauseSignals \cup SessionSignals \cup UnhandledSignals

IsStop(sig) ==
    sig.control \in {"SERVICE_CONTROL_STOP", "SERVICE_CONTROL_SHUTDOWN"}

\* crate::ServiceEvent
Event(type, session) == [type |-> type, session |-> session]
StopEvent == Event("Stop", 0)

\* A handler that builds SessionLock whatever the sub-reason.
SessionVariantAlwaysLock(event_type) == "SessionLock"

\* The ServiceEvent variant the handlers build for a session sub-reason.
SessionVariant(event_type) ==
    CASE event_type = "WTS_CONSOLE_CONNECT"    -> "SessionConnect"
      [] event_type = "WTS_CONSOLE_DISCONNECT" -> "SessionDisconnect"
      [] event_type = "WTS_REMOTE_CONNECT"     -> "SessionRemoteConnect"
      [] event_type = "WTS_REMOTE_DISCONNECT"  -> "SessionRemoteDisconnect"
      [] event_type = "WTS_SESSION_LOGON"      -> "SessionLogon"
      [] event_type = "WTS_SESSION_LOGOFF"     -> "SessionLogoff"
      [] event_type = "WTS_SESSION_LOCK"       -> "SessionLock"
      [] event_type = "WTS_SESSION_UNLOCK"     -> "SessionUnlock"
      [] OTHER                                 -> "none"

\* A handler that acknowledges every control without doing anything.
HandlerBranchAck(fl, sig) == "ack"

\* The branch of the handler's match a control input takes, per flavour:
\* "stop" reports and sends, "send" only sends, "ack" returns 0 with no
\* effect, "unimplemented" returns ERROR_CALL_NOT_IMPLEMENTED.
HandlerBranch(fl, sig) ==
    CASE IsStop(sig) -> "stop"
      [] sig.control \in {"SERVICE_CONTROL_PAUSE", "SERVICE_CONTROL_CONTINUE"} ->
            IF fl = "sync" THEN "send" ELSE "unimplemented"
      [] sig.control = "SERVICE_CONTROL_SESSIONCHANGE" ->
            IF sig.event_type \in SessionReasons THEN "send" ELSE "ack"
      [] OTHER -> "unimplemented"

\* A handler that turns every control input into a Pause event.
HandlerEventPause(sig) == Event("Pause", 0)

\* The event a control input is turned into.
HandlerEvent(sig) ==
    CASE IsStop(sig) -> StopEvent
      [] sig.control = "SERVICE_CONTROL_PAUSE" -> Event("Pause", 0)
      [] sig.control = "SERVICE_CONTROL_CONTINUE" -> Event("Continue", 0)
      [] OTHER -> Event(SessionVariant(sig.event_type), sig.session_id)

(***************************************************************************)
(* The status reporter.                                                    *)
(***************************************************************************)
\* The states a status report can carry.
StatusStates ==
    {"SERVICE_START_PENDING", "SERVICE_RUNNING", "SERVICE_STOP_PENDING",
     "SERVICE_STOPPED"}

\* What winapi::um::winsvc::SetServiceStatus returns: it fails for a handle
\* that is not a registration and whenever the OS rejects the call.
SetServiceStatus(status_handle, current_state) ==
    status_handle # NullHandle /\ current_state \notin scmRejects

\* dwControlsAccepted: SERVICE_ACCEPT_STOP | SERVICE_ACCEPT_SHUTDOWN
ControlsAccepted == {"SERVICE_ACCEPT_STOP", "SERVICE_ACCEPT_SHUTDOWN"}

\* One SetServiceStatus call: who made it, with which handle, state and
\* hint, the other fields of the SERVICE_STATUS it passes, and whether the
\* OS call succeeded.
StatusReport(by, status_handle, current_state, wait_hint) ==
    [by |-> by, handle |-> status_handle, state |-> current_state,
     wait_hint |-> wait_hint,
     dwServiceType |-> "SERVICE_WIN32_OWN_PROCESS",
     dwControlsAccepted |-> ControlsAccepted,
     dwWin32ExitCode |-> 0,
     dwServiceSpecificExitCode |-> 0,
     dwCheckPoint |-> 0,
     ok |-> SetServiceStatus(status_handle, current_state)]

set_service_status(by, status_handle, current_state, wait_hint) ==
    log' = Append(log, StatusReport(by, status_handle, current_state, wait_hint))

(***************************************************************************)
(* The event channel.                                                      *)
(***************************************************************************)
\* A channel whose receiver exists only once the body runs.
ReceiverAliveOnceRunning == bpc = "running"

\* The receiver lives in the dispatcher until the body is hosted and then in
\* the body, which drops it when it returns or unwinds.
ReceiverAlive == bpc \in {"notstarted", "running"}

\* Whether a send can complete now: std::sync::mpsc is unbounded; tokio's
\* blocking_send waits for capacity unless the receiver is gone.
SendReady ==
    \/ flavor = "sync"
    \/ ~ReceiverAlive
    \/ Len(chan) < ChannelCapacity

\* A send that loses its message.
ChannelSendLost(ev) == chan

\* A send that queues its message whether or not anybody can receive it.
ChannelSendKept(ev) == Append(chan, ev)

\* A send that queues its message twice.
ChannelSendTwice(ev) ==
    IF ReceiverAlive THEN Append(Append(chan, ev), ev) ELSE chan

\* The channel after a send: the message is queued, or handed back in an Err
\* (which the handlers discard) when the receiver is gone.
ChannelSend(ev) == IF ReceiverAlive THEN Append(chan, ev) ELSE chan

(***************************************************************************)
(* The arguments of the service entry point.                               *)
(***************************************************************************)
\* A wide string is a sequence of UTF-16 code units: "s", "v", "c", "x" stand
\* for units that are characters by themselves, "D800" for a surrogate
\* without its pair.
UnpairedSurrogates == {"D800"}

\* The registered name of the service, argv[0].
ServiceName == <<"s", "v", "c">>

\* The extra arguments a service can be configured with.
ExtraArgs == {<<"x">>, <<"D800">>}

SeqsUpTo(S, n) == UNION {[1..k -> S] : k \in 0..n}

\* The argument vectors the OS passes: the name, then the extra arguments.
ArgVectors == {<<ServiceName>> \o extra : extra \in SeqsUpTo(ExtraArgs, MaxExtraArgs)}

\* WideCString::from_ptr_str(s).to_string_lossy(): a unit that is no
\* character becomes U+FFFD.
to_string_lossy(w) ==
    [i \in 1..Len(w) |-> IF w[i] \in UnpairedSurrogates THEN "FFFD" ELSE w[i]]

convert_args(argc, a) == [i \in 1..argc |-> to_string_lossy(a[i])]

\* What the body was called with: ServiceFn takes no argument vector, the
\* asynchronous body takes one; a Windows entry point passes the receiver and
\* the sender of its channel (events), the other builds pass None for both.
BodyArgs(given, args) == [given |-> given, args |-> args, events |-> TRUE]
NoBodyArgs == BodyArgs(FALSE, <<>>)

\* $function(None, None)
NoneNone == [given |-> FALSE, args |-> <<>>, events |-> FALSE]

(***************************************************************************)
(* Results of calls.                                                       *)
(***************************************************************************)
Ok == [kind |-> "Ok", code |-> 0]
Err(error, code) == [kind |-> error, code |-> code]
NoResult == [kind |-> "none", code |-> 0]

\* A finished controller call: its name, its result and the OS primitives it
\* invoked, in order.
Call(op, result, calls) == [op |-> op, result |-> result, calls |-> calls]
NoCall == Call("none", NoResult, <<>>)

\* A true or false answer.
Bool(b) == [kind |-> IF b THEN "true" ELSE "false", code |-> 0]

\* The unit file: absent, or present with its lines.
File(present, content) == [present |-> present, content |-> content]
NoFile == File(FALSE, <<>>)

\* The service manager's entry for the name: whether it is installed, with
\* which definition, and whether its description was set.
ServiceEntry(installed, config, described) ==
    [installed |-> installed, config |-> config, described |-> described]
NoService == ServiceEntry(FALSE, "none", FALSE)

\* No controller call was made yet and nothing is installed.
ControllerInit ==
    /\ unitFile = NoFile
    /\ linuxOp = NoCall
    /\ lastSuccess = "none"
    /\ nOps = 0
    /\ winService = NoService
    /\ winState = "SERVICE_STOPPED"
    /\ logSource = FALSE
    /\ wpc = "idle"
    /\ service_status = "SERVICE_STOPPED"
    /\ winOp = NoCall
    /\ androidOp = NoCall

(***************************************************************************)
(* Initial state: the process has entered the service entry point.         *)
(***************************************************************************)
\* The entry point's state before its first statement, for a flavour, a body
\* and a dispatcher position.
EntryInit(d) ==
    /\ flavor \in Flavors
    /\ bodyKind \in BodyKinds
    /\ dpc = d
    /\ handle = NullHandle
    /\ SERVICE_HANDLE = NullHandle
    /\ mutex = "free"
    /\ chan = <<>>
    /\ bpc = "notstarted"
    /\ received = <<>>
    /\ hpc = [h \in HandlerThreads |-> "idle"]
    /\ hctl = [h \in HandlerThreads |-> NoSignal]
    /\ hret = [h \in HandlerThreads |-> 0]
    /\ log = <<>>
    /\ nSig = 0
    /\ bodyArgs = NoBodyArgs

\* The OS accepts every status call made with a registered handle.
ScmAccepts == scmRejects = {}

Init ==
    /\ EntryInit("entry")
    /\ mpc = "dispatching"
    /\ dispatchResult = NoResult
    /\ argv = <<ServiceName>>
    /\ ScmAccepts
    /\ backend = "windows"
    /\ ControllerInit

(***************************************************************************)
(* The dispatcher: run_service / the ServiceAsyncMacro entry.              *)
(***************************************************************************)
\* RegisterServiceCtrlHandlerExW: the OS accepts (a handle) or rejects (null).
\* The result is not inspected.
RegistrationResults == {RegisteredHandle, NullHandle}

Register ==
    /\ dpc = "entry"
    /\ \E r \in RegistrationResults : handle' = r
    /\ dpc' = "registered"
    /\ UNCHANGED <<mainVars, ctlVars, bodyArgs>>
    /\ UNCHANGED <<flavor, bodyKind, SERVICE_HANDLE, mutex, chan, bpc, received,
                   hpc, hctl, hret, log, nSig>>

\* let mut sh = SERVICE_HANDLE.lock().unwrap(); *sh = ServiceStatusHandle(handle);
StoreHandle ==
    /\ dpc = "registered"
    /\ mutex = "free"
    /\ mutex' = "dispatcher"
    /\ SERVICE_HANDLE' = handle
    /\ dpc' = "locked"
    /\ UNCHANGED <<mainVars, ctlVars, bodyArgs>>
    /\ UNCHANGED <<flavor, bodyKind, handle, chan, bpc, received, hpc, hctl,
                   hret, log, nSig>>

\* drop(sh);
ReleaseHandle ==
    /\ dpc = "locked"
    /\ mutex' = "free"
    /\ dpc' = "stored"
    /\ UNCHANGED <<mainVars, ctlVars, bodyArgs>>
    /\ UNCHANGED <<flavor, bodyKind, handle, SERVICE_HANDLE, chan, bpc, received,
                   hpc, hctl, hret, log, nSig>>

ReportStartPending ==
    /\ dpc = "stored"
    /\ set_service_status("dispatcher", handle, "SERVICE_START_PENDING", 0)
    /\ dpc' = "start_pending"
    /\ UNCHANGED <<mainVars, ctlVars, bodyArgs>>
    /\ UNCHANGED <<flavor, bodyKind, handle, SERVICE_HANDLE, mutex, chan, bpc,
                   received, hpc, hctl, hret, nSig>>

ReportRunning ==
    /\ dpc = "start_pending"
    /\ set_service_status("dispatcher", handle, "SERVICE_RUNNING", 0)
    /\ dpc' = "running"
    /\ UNCHANGED <<mainVars, ctlVars, bodyArgs>>
    /\ UNCHANGED <<flavor, bodyKind, handle, SERVICE_HANDLE, mutex, chan, bpc,
                   received, hpc, hctl, hret, nSig>>

\* The arguments the entry point hands to the body: run_service calls
\* service_main(Some(rx), Some(tx2)); the asynchronous entry calls
\* $function(rx, tx2, args, false) with args = convert_args(argc, argv).
PassedArgs(fl, a) ==
    IF fl = "async" THEN BodyArgs(TRUE, convert_args(Len(a), a)) ELSE NoBodyArgs

\* A dispatcher that goes on to host the body only if its Running report
\* succeeded.
HostBodyIfReported ==
    /\ dpc = "running"
    /\ log[Len(log)].ok
    /\ bpc' = "running"
    /\ bodyArgs' = PassedArgs(flavor, argv)
    /\ dpc' = "hosting"
    /\ UNCHANGED <<mainVars, ctlVars>>
    /\ UNCHANGED <<flavor, bodyKind, handle, SERVICE_HANDLE, mutex, chan,
                   received, hpc, hctl, hret, log, nSig>>

\* std::thread::spawn(service_main(Some(rx), Some(tx2))), or
\* runtime.block_on($function(rx, tx2, args, false)).
HostBody ==
    /\ dpc = "running"
    /\ bpc' = "running"
    /\ bodyArgs' = PassedArgs(flavor, argv)
    /\ dpc' = "hosting"
    /\ UNCHANGED <<mainVars, ctlVars>>
    /\ UNCHANGED <<flavor, bodyKind, handle, SERVICE_HANDLE, mutex, chan,
                   received, hpc, hctl, hret, log, nSig>>

\* What the wait for the body ends as: service_thread.join() gives back the
\* body's result, a panic included, and `let _e` drops it; block_on resumes
\* the body's panic on the dispatcher thread, which cannot unwind out of the
\* extern "system" entry.
JoinOutcome(fl, b) ==
    IF fl = "async" /\ b = "panicked" THEN "aborted" ELSE "joined"

\* A dispatcher that does not wait for the body.
JoinWithoutWaiting ==
    /\ dpc = "hosting"
    /\ dpc' = "joined"
    /\ UNCHANGED <<mainVars, ctlVars, bodyArgs>>
    /\ UNCHANGED <<flavor, bodyKind, handle, SERVICE_HANDLE, mutex, chan, bpc,
                   received, hpc, hctl, hret, log, nSig>>

Join ==
    /\ dpc = "hosting"
    /\ bpc \in {"returned", "panicked"}
    /\ dpc' = JoinOutcome(flavor, bpc)
    /\ UNCHANGED <<mainVars, ctlVars, bodyArgs>>
    /\ UNCHANGED <<flavor, bodyKind, handle, SERVICE_HANDLE, mutex, chan, bpc,
                   received, hpc, hctl, hret, log, nSig>>

\* A dispatcher that leaves without the Stopped report.
ReportStoppedSkipped ==
    /\ dpc = "joined"
    /\ dpc' = "stopped"
    /\ UNCHANGED <<mainVars, ctlVars, bodyArgs>>
    /\ UNCHANGED <<flavor, bodyKind, handle, SERVICE_HANDLE, mutex, chan, bpc,
                   received, hpc, hctl, hret, log, nSig>>

ReportStopped ==
    /\ dpc = "joined"
    /\ set_service_status("dispatcher", handle, "SERVICE_STOPPED", 0)
    /\ dpc' = "stopped"
    /\ UNCHANGED <<mainVars, ctlVars, bodyArgs>>
    /\ UNCHANGED <<flavor, bodyKind, handle, SERVICE_HANDLE, mutex, chan, bpc,
                   received, hpc, hctl, hret, nSig>>

\* The entry point returns to the OS.
Return ==
    /\ dpc = "stopped"
    /\ dpc' = "returned"
    /\ UNCHANGED <<mainVars, ctlVars, bodyArgs>>
    /\ UNCHANGED <<flavor, bodyKind, handle, SERVICE_HANDLE, mutex, chan, bpc,
                   received, hpc, hctl, hret, log, nSig>>

(***************************************************************************)
(* The hosted body.                                                        *)
(***************************************************************************)
\* One turn of the examples' loop: take a message if there is one, leave the
\* loop and return on Stop.
BodyPoll ==
    /\ bpc = "running"
    /\ bodyKind = "poll"
    /\ chan # <<>>
    /\ received' = Append(received, Head(chan))
    /\ IF Head(chan) = StopEvent
          THEN /\ bpc' = "returned"
               /\ chan' = <<>>
          ELSE /\ bpc' = bpc
               /\ chan' = Tail(chan)
    /\ UNCHANGED <<mainVars, ctlVars, bodyArgs>>
    /\ UNCHANGED <<flavor, bodyKind, dpc, handle, SERVICE_HANDLE, mutex, hpc,
                   hctl, hret, log, nSig>>

\* A body that returns by itself; its receiver and the queue go with it.
BodyReturn ==
    /\ bpc = "running"
    /\ bodyKind = "ret"
    /\ bpc' = "returned"
    /\ chan' = <<>>
    /\ UNCHANGED <<mainVars, ctlVars, bodyArgs>>
    /\ UNCHANGED <<flavor, bodyKind, dpc, handle, SERVICE_HANDLE, mutex,
                   received, hpc, hctl, hret, log, nSig>>

\* A body that panics; unwinding drops its receiver.
BodyPanic ==
    /\ bpc = "running"
    /\ bodyKind = "panic"
    /\ bpc' = "panicked"
    /\ chan' = <<>>
    /\ UNCHANGED <<mainVars, ctlVars, bodyArgs>>
    /\ UNCHANGED <<flavor, bodyKind, dpc, handle, SERVICE_HANDLE, mutex,
                   received, hpc, hctl, hret, log, nSig>>

(***************************************************************************)
(* The control handler: service_handler / service_handler_async.           *)
(***************************************************************************)
\* A panic that reaches the extern "system" entry ends the process, and with
\* it every thread.
ProcessAlive == dpc # "aborted"

\* The OS can call the handler once it holds a registration.
HandlerRegistered == dpc # "entry" /\ handle # NullHandle /\ ProcessAlive

\* The OS calls the handler with a control input; the match picks the branch.
HandlerInvoke(h, sig) ==
    /\ HandlerRegistered
    /\ hpc[h] = "idle"
    /\ hctl' = [hctl EXCEPT ![h] = sig]
    /\ LET br == HandlerBranch(flavor, sig) IN
         CASE br = "stop" ->
                /\ hpc' = [hpc EXCEPT ![h] = "lock"]
                /\ hret' = hret
           [] br = "send" ->
                /\ hpc' = [hpc EXCEPT ![h] = "send"]
                /\ hret' = hret
           [] br = "ack" ->
                /\ hpc' = hpc
                /\ hret' = [hret EXCEPT ![h] = 0]
           [] OTHER ->
                /\ hpc' = hpc
                /\ hret' = [hret EXCEPT ![h] = ERROR_CALL_NOT_IMPLEMENTED]
    /\ UNCHANGED <<mainVars, ctlVars, bodyArgs>>
    /\ UNCHANGED <<flavor, bodyKind, dpc, handle, SERVICE_HANDLE, mutex, chan,
                   bpc, received, log>>

\* The OS delivers a control signal, from the set the environment draws from.
Deliver(h, sigs, limit) ==
    /\ nSig < limit
    /\ \E sig \in sigs : HandlerInvoke(h, sig)
    /\ nSig' = nSig + 1

\* let mut sh = SERVICE_HANDLE.lock().unwrap();
HandlerLock(h) ==
    /\ ProcessAlive
    /\ hpc[h] = "lock"
    /\ mutex = "free"
    /\ mutex' = h
    /\ hpc' = [hpc EXCEPT ![h] = "locked"]
    /\ UNCHANGED <<mainVars, ctlVars, bodyArgs>>
    /\ UNCHANGED <<flavor, bodyKind, dpc, handle, SERVICE_HANDLE, chan, bpc,
                   received, hctl, hret, log, nSig>>

\* A handler that reports the terminal state itself.
HandlerStopStateStopped == "SERVICE_STOPPED"

\* The state the handler reports on Stop/Shutdown.
HandlerStopState == "SERVICE_STOP_PENDING"

\* set_service_status(*h, SERVICE_STOP_PENDING, 10), the guard still held.
HandlerReport(h) ==
    /\ ProcessAlive
    /\ hpc[h] = "locked"
    /\ set_service_status("handler", SERVICE_HANDLE, HandlerStopState, StopWaitHint)
    /\ hpc' = [hpc EXCEPT ![h] = "reported"]
    /\ UNCHANGED <<mainVars, ctlVars, bodyArgs>>
    /\ UNCHANGED <<flavor, bodyKind, dpc, handle, SERVICE_HANDLE, mutex, chan,
                   bpc, received, hctl, hret, nSig>>

\* A handler that leaves with the guard still held.
HandlerKeepsGuard(h) ==
    /\ ProcessAlive
    /\ hpc[h] = "reported"
    /\ mutex' = mutex
    /\ hpc' = [hpc EXCEPT ![h] = "send"]
    /\ UNCHANGED <<mainVars, ctlVars, bodyArgs>>
    /\ UNCHANGED <<flavor, bodyKind, dpc, handle, SERVICE_HANDLE, chan, bpc,
                   received, hctl, hret, log, nSig>>

\* drop(sh);
HandlerUnlock(h) ==
    /\ ProcessAlive
    /\ hpc[h] = "reported"
    /\ mutex' = "free"
    /\ hpc' = [hpc EXCEPT ![h] = "send"]
    /\ UNCHANGED <<mainVars, ctlVars, bodyArgs>>
    /\ UNCHANGED <<flavor, bodyKind, dpc, handle, SERVICE_HANDLE, chan, bpc,
                   received, hctl, hret, log, nSig>>

\* let _ = (*tx).send(event) / (*tx).blocking_send(event); 0
HandlerSend(h) ==
    /\ ProcessAlive
    /\ hpc[h] = "send"
    /\ SendReady
    /\ chan' = ChannelSend(HandlerEvent(hctl[h]))
    /\ hret' = [hret EXCEPT ![h] = 0]
    /\ hpc' = [hpc EXCEPT ![h] = "idle"]
    /\ UNCHANGED <<mainVars, ctlVars, bodyArgs>>
    /\ UNCHANGED <<flavor, bodyKind, dpc, handle, SERVICE_HANDLE, mutex, bpc,
                   received, hctl, log, nSig>>

(***************************************************************************)
(* The main thread: Service::dispatch.                                     *)
(***************************************************************************)
\* GetLastError() after a failed StartServiceCtrlDispatcherW:
\* ERROR_FAILED_SERVICE_CONTROLLER_CONNECT, ERROR_SERVICE_ALREADY_RUNNING.
DispatcherErrors == {1063, 1056}

\* A dispatch that reports success whatever the primitive returned.
DispatchOutcomeAlwaysOk(result, last_error) == Ok

\* if result == 0 { Err(GetLastError()) } else { Ok(()) }
DispatchOutcome(result, last_error) ==
    IF result = 0 THEN Err("WindowsError", last_error) ELSE Ok

\* StartServiceCtrlDispatcherW fails: it returns 0 at once, the entry point is
\* never called, and dispatch returns to main.
StartDispatcherFails ==
    /\ mpc = "main"
    /\ \E last_error \in DispatcherErrors :
          dispatchResult' = DispatchOutcome(0, last_error)
    /\ mpc' = "returned"
    /\ UNCHANGED <<serviceVars, argv, scmRejects, ctlVars>>

\* StartServiceCtrlDispatcherW connects the main thread to the service
\* manager, which calls the entry point of the table on a thread of its own.
StartDispatcherConnects ==
    /\ mpc = "main"
    /\ mpc' = "dispatching"
    /\ dpc' = "entry"
    /\ UNCHANGED <<flavor, bodyKind, handle, SERVICE_HANDLE, mutex, chan, bpc,
                   received, hpc, hctl, hret, log, nSig, bodyArgs>>
    /\ UNCHANGED <<dispatchResult, argv, scmRejects, ctlVars>>

\* StartServiceCtrlDispatcherW returns non-zero once the service has stopped
\* and its entry point has returned; dispatch returns to main.
DispatchReturns ==
    /\ mpc = "dispatching"
    /\ dpc = "returned"
    /\ dispatchResult' = DispatchOutcome(1, 0)
    /\ mpc' = "returned"
    /\ UNCHANGED <<serviceVars, argv, scmRejects, ctlVars>>

(***************************************************************************)
(* Service::dispatch on Linux and in the Android stub.                     *)
(***************************************************************************)
UnixBackends == {"linux", "android"}

\* dispatch calls service_main(), the entry ServiceMacro generates, which
\* calls the body on the same thread: $function(None, None).
UnixDispatch ==
    /\ backend \in UnixBackends
    /\ mpc = "main"
    /\ mpc' = "dispatching"
    /\ bpc' = "running"
    /\ bodyArgs' = NoneNone
    /\ UNCHANGED <<flavor, bodyKind, dpc, handle, SERVICE_HANDLE, mutex, chan,
                   received, hpc, hctl, hret, log, nSig>>
    /\ UNCHANGED <<dispatchResult, argv, scmRejects, ctlVars>>

\* A dispatch that answers before its body is done.
UnixDispatchReturnsEarly ==
    /\ backend \in UnixBackends
    /\ mpc = "dispatching"
    /\ bpc = "running"
    /\ dispatchResult' = Ok
    /\ mpc' = "returned"
    /\ UNCHANGED <<serviceVars, argv, scmRejects, ctlVars>>

\* service_main(); Ok(())
UnixDispatchReturns ==
    /\ backend \in UnixBackends
    /\ mpc = "dispatching"
    /\ bpc = "returned"
    /\ dispatchResult' = Ok
    /\ mpc' = "returned"
    /\ UNCHANGED <<serviceVars, argv, scmRejects, ctlVars>>

\* A panic of the body unwinds through dispatch: it returns nothing.
UnixDispatchUnwinds ==
    /\ backend \in UnixBackends
    /\ mpc = "dispatching"
    /\ bpc = "panicked"
    /\ mpc' = "panicked"
    /\ UNCHANGED <<serviceVars, dispatchResult, argv, scmRejects, ctlVars>>

(***************************************************************************)
(* The Platform Controller on Linux (service/src/linux.rs).                *)
(***************************************************************************)
\* An Option<String>: no element or one.
None == <<>>
Some(x) == <<x>>

ServiceConfig(arguments, description, binary, username, config_path) ==
    [arguments |-> arguments, description |-> description, binary |-> binary,
     username |-> username, config_path |-> config_path]

\* The definitions an administrator installs.
Configs ==
    {ServiceConfig(<<"--serve", "-v">>, "Example", "/usr/bin/example",
                   Some("svcuser"), "/etc/example"),
     ServiceConfig(<<>>, "Other", "/usr/bin/other", None, ""),
     ServiceConfig(<<"a", "b">>, "D", "/bin/x", None, "/etc/x")}

\* [String]::join(sep), as the pieces of the resulting string.
RECURSIVE join(_, _)
join(strings, sep) ==
    IF Len(strings) = 0 THEN <<>>
    ELSE IF Len(strings) = 1 THEN <<strings[1]>>
    ELSE <<strings[1], sep>> \o join(Tail(strings), sep)

\* The unit file of a definition, as its lines; a line is the pieces pushed
\* for it.
build_systemd_file(config) ==
    <<<<"[Unit]">>,
      <<"Description=", config.description>>,
      <<"[Service]">>>>
    \o [i \in 1..Len(config.username) |-> <<"User=", config.username[i]>>]
    \o <<<<"WorkingDirectory=", config.config_path>>,
         <<"ExecStart=", config.binary, " ">> \o join(config.arguments, " "),
         <<>>,
         <<"[Install]">>,
         <<"WantedBy=multi-user.target">>>>

\* How a spawned systemctl can end: it ran and succeeded, it ran and failed,
\* or it could not be run.
CommandOutcomes == {"success", "failure", "not_run"}

\* A systemctl run whose exit status is not looked at.
systemctlUnchecked(outcome) ==
    IF outcome = "not_run" THEN Err("NoSystemCtl", 0) ELSE Ok

\* .output().map_err(|_| NoSystemCtl)?; if !o.status.success() { Err(SystemCtlFailed) }
systemctl(outcome) ==
    CASE outcome = "not_run" -> Err("NoSystemCtl", 0)
      [] outcome = "failure" -> Err("SystemCtlFailed", 0)
      [] OTHER               -> Ok

\* The I/O errors of the file system: EACCES, ENOSPC.
IoErrors == {13, 28}
\* ENOENT
ENOENT == 2

\* What the environment does to one create call: whether File::create and
\* write_all fail, and with which error, and how daemon-reload ends.
CreateEnvs ==
    [create : {0} \cup IoErrors, write : {0} \cup IoErrors, reload : CommandOutcomes]

\* Service::create: the file after the call, the result, the primitives used.
\* File::create truncates an existing file; nothing removes the file again.
create(file, config, env) ==
    IF env.create # 0
       THEN [file |-> file, result |-> Err("FileIoError", env.create),
             calls |-> <<"File::create">>]
    ELSE IF env.write # 0
       THEN [file |-> File(TRUE, <<>>), result |-> Err("FileIoError", env.write),
             calls |-> <<"File::create", "write_all">>]
    ELSE [file |-> File(TRUE, build_systemd_file(config)),
          result |-> systemctl(env.reload),
          calls |-> <<"File::create", "write_all", "systemctl daemon-reload">>]

\* Service::delete: std::fs::remove_file(pb).
delete(file, io_error) ==
    IF ~file.present
       THEN [file |-> file, result |-> Err("io::Error", ENOENT),
             calls |-> <<"remove_file">>]
    ELSE IF io_error # 0
       THEN [file |-> file, result |-> Err("io::Error", io_error),
             calls |-> <<"remove_file">>]
    ELSE [file |-> NoFile, result |-> Ok, calls |-> <<"remove_file">>]

\* Service::exists: pb.exists().
exists(file) == file.present

\* The last of create and delete that returned Ok.
LastSuccess(op, result) == IF result = Ok THEN op ELSE lastSuccess

LinuxCall(op, out) ==
    /\ backend = "linux"
    /\ nOps < MaxOps
    /\ nOps' = nOps + 1
    /\ unitFile' = out.file
    /\ linuxOp' = Call(op, out.result, out.calls)
    /\ UNCHANGED <<serviceVars, mainVars, winVars, androidVars, backend>>

LinuxCreate ==
    \E config \in Configs, env \in CreateEnvs :
        LET out == create(unitFile, config, env) IN
            /\ LinuxCall("create", out)
            /\ lastSuccess' = LastSuccess("create", out.result)

LinuxDelete ==
    \E io_error \in {0} \cup IoErrors :
        LET out == delete(unitFile, io_error) IN
            /\ LinuxCall("delete", out)
            /\ lastSuccess' = LastSuccess("delete", out.result)

\* An exists that opens the file for writing to find out.
LinuxExistsTouches ==
    /\ LinuxCall("exists", [file |-> File(TRUE, unitFile.content),
                            result |-> Bool(exists(unitFile)),
                            calls |-> <<"File::create">>])
    /\ UNCHANGED lastSuccess

LinuxExists ==
    /\ LinuxCall("exists", [file |-> unitFile, result |-> Bool(exists(unitFile)),
                            calls |-> <<"Path::exists">>])
    /\ UNCHANGED lastSuccess

\* A start that runs systemctl again when the first run failed.
LinuxStartRetries ==
    \E outcome \in CommandOutcomes, again \in CommandOutcomes :
        /\ LinuxCall("start",
              IF outcome = "success"
                 THEN [file |-> unitFile, result |-> Ok,
                       calls |-> <<"systemctl start">>]
                 ELSE [file |-> unitFile, result |-> systemctl(again),
                       calls |-> <<"systemctl start", "systemctl start">>])
        /\ UNCHANGED lastSuccess

\* Service::start and Service::stop: one systemctl run each.
LinuxStart ==
    \E outcome \in CommandOutcomes :
        /\ LinuxCall("start", [file |-> unitFile, result |-> systemctl(outcome),
                               calls |-> <<"systemctl start">>])
        /\ UNCHANGED lastSuccess

LinuxStop ==
    \E outcome \in CommandOutcomes :
        /\ LinuxCall("stop", [file |-> unitFile, result |-> systemctl(outcome),
                              calls |-> <<"systemctl stop">>])
        /\ UNCHANGED lastSuccess

(***************************************************************************)
(* The Platform Controller on Windows (service/src/windows.rs).            *)
(***************************************************************************)
\* One OS primitive invoked by a call: its name, whether it succeeded, and
\* the service state it returned ("none" if it returns no state).
Api(name, ok, state) == [api |-> name, ok |-> ok, state |-> state]

\* GetLastError() values: 0 stands for success.
ERROR_ACCESS_DENIED == 5
ERROR_SERVICE_ALREADY_RUNNING == 1056
ERROR_SERVICE_DOES_NOT_EXIST == 1060
ERROR_SERVICE_CANNOT_ACCEPT_CTRL == 1061
ERROR_SERVICE_NOT_ACTIVE == 1062
ERROR_SERVICE_EXISTS == 1073

\* OpenSCManagerW succeeds or is denied.
ManagerResults == {0, ERROR_ACCESS_DENIED}

\* The names of the definitions an administrator installs.
WinConfigs == {"A", "B"}

\* A controller call that panics takes the calling process with it.
Panic == [kind |-> "panic", code |-> 0]

\* A call begins: the administrator's process is alive and in no other call.
WinBegin ==
    /\ backend = "windows"
    /\ wpc = "idle"
    /\ nOps < MaxOps
    /\ nOps' = nOps + 1

\* A call ends with a result; a panic ends the calling process.
WinEnd(op, result, calls) ==
    /\ winOp' = Call(op, result, calls)
    /\ wpc' = IF result = Panic THEN "panicked" ELSE "idle"

WinFrame ==
    UNCHANGED <<serviceVars, mainVars, linuxVars, androidVars, backend>>

\* What StartServiceW answers: it starts a stopped, installed service, may
\* refuse even that, and refuses a service that is not stopped.
StartResults ==
    IF winState = "SERVICE_STOPPED"
       THEN {0, ERROR_ACCESS_DENIED}
       ELSE {ERROR_SERVICE_ALREADY_RUNNING}

\* What ControlService(SERVICE_CONTROL_STOP) answers.
StopResults ==
    CASE winState = "SERVICE_RUNNING" -> {0, ERROR_ACCESS_DENIED}
      [] winState = "SERVICE_STOPPED" -> {ERROR_SERVICE_NOT_ACTIVE}
      [] OTHER                        -> {ERROR_SERVICE_CANNOT_ACCEPT_CTRL}

\* if state != SERVICE_RUNNING { Err(FailedToStart(state)) } else { Ok(()) }
StartOutcome(state) ==
    IF state # "SERVICE_RUNNING" THEN Err("FailedToStart", 0) ELSE Ok

\* Ok(()) at the end of Service::stop, whatever state it holds.
StopOutcome(state) == Ok

\* Service::start up to its poll loop.
WinStart ==
    /\ WinBegin
    /\ service_status' = "SERVICE_STOPPED"
    /\ \E manager \in ManagerResults :
         IF manager # 0
            THEN /\ WinEnd("start", Err("WindowsError", manager),
                           <<Api("OpenSCManagerW", FALSE, "none")>>)
                 /\ UNCHANGED winState
         ELSE IF ~winService.installed
            THEN /\ WinEnd("start", Panic,
                           <<Api("OpenSCManagerW", TRUE, "none"),
                             Api("OpenServiceW", FALSE, "none")>>)
                 /\ UNCHANGED winState
         ELSE \E started \in StartResults :
            IF started # 0
               THEN /\ WinEnd("start", Panic,
                              <<Api("OpenSCManagerW", TRUE, "none"),
                                Api("OpenServiceW", TRUE, "none"),
                                Api("StartServiceW", FALSE, "none")>>)
                    /\ UNCHANGED winState
               ELSE /\ winOp' = Call("start", NoResult,
                              <<Api("OpenSCManagerW", TRUE, "none"),
                                Api("OpenServiceW", TRUE, "none"),
                                Api("StartServiceW", TRUE, "none")>>)
                    /\ wpc' = "start_poll"
                    /\ winState' = "SERVICE_START_PENDING"
    /\ UNCHANGED <<winService, logSource>>
    /\ WinFrame

\* Service::stop up to its poll loop. A refused ControlService skips the loop
\* and the call returns Ok(()).
WinStop ==
    /\ WinBegin
    /\ \E manager \in ManagerResults :
         IF manager # 0
            THEN /\ WinEnd("stop", Err("WindowsError", manager),
                           <<Api("OpenSCManagerW", FALSE, "none")>>)
                 /\ service_status' = "SERVICE_STOPPED"
                 /\ UNCHANGED winState
         ELSE IF ~winService.installed
            THEN /\ WinEnd("stop", Panic,
                           <<Api("OpenSCManagerW", TRUE, "none"),
                             Api("OpenServiceW", FALSE, "none")>>)
                 /\ service_status' = "SERVICE_STOPPED"
                 /\ UNCHANGED winState
         ELSE \E stopped \in StopResults :
            IF stopped # 0
               THEN /\ WinEnd("stop", StopOutcome("SERVICE_STOPPED"),
                              <<Api("OpenSCManagerW", TRUE, "none"),
                                Api("OpenServiceW", TRUE, "none"),
                                Api("ControlService", FALSE, "none")>>)
                    /\ service_status' = "SERVICE_STOPPED"
                    /\ UNCHANGED winState
               ELSE /\ winOp' = Call("stop", NoResult,
                              <<Api("OpenSCManagerW", TRUE, "none"),
                                Api("OpenServiceW", TRUE, "none"),
                                Api("ControlService", TRUE, "SERVICE_STOP_PENDING")>>)
                    /\ wpc' = "stop_poll"
                    /\ service_status' = "SERVICE_STOP_PENDING"
                    /\ winState' = "SERVICE_STOP_PENDING"
    /\ UNCHANGED <<winService, logSource>>
    /\ WinFrame

\* The status queries the call in progress has made.
Polls == Cardinality({i \in 1..Len(winOp.calls) :
                        winOp.calls[i].api = "QueryServiceStatus"})

\* The state the poll loop of the call in progress waits to leave.
PendingState ==
    IF wpc = "start_poll" THEN "SERVICE_START_PENDING" ELSE "SERVICE_STOP_PENDING"

\* What the call returns when its loop has ended holding `state`.
PollOutcome(op, state) ==
    IF op = "start" THEN StartOutcome(state) ELSE StopOutcome(state)

\* One turn of the poll loop: QueryServiceStatus fails and the loop ends, or
\* it fills service_status, and the loop ends unless the state is still the
\* pending one (then the thread sleeps 250 ms and the loop goes on). After
\* MaxPolls queries the service manager no longer answers "pending".
WinPoll ==
    /\ wpc \in {"start_poll", "stop_poll"}
    /\ \/ /\ WinEnd(winOp.op, PollOutcome(winOp.op, service_status),
                    Append(winOp.calls, Api("QueryServiceStatus", FALSE, "none")))
          /\ UNCHANGED service_status
       \/ /\ winState # PendingState
          /\ service_status' = winState
          /\ WinEnd(winOp.op, PollOutcome(winOp.op, winState),
                    Append(winOp.calls, Api("QueryServiceStatus", TRUE, winState)))
       \/ /\ winState = PendingState
          /\ Polls < MaxPolls
          /\ service_status' = winState
          /\ winOp' = [winOp EXCEPT !.calls =
                          Append(@, Api("QueryServiceStatus", TRUE, winState))]
          /\ UNCHANGED wpc
    /\ UNCHANGED <<winService, winState, logSource, nOps>>
    /\ WinFrame

\* The service itself: a starting service comes up or fails, a stopping
\* service stops.
WinServiceProgress ==
    /\ backend = "windows"
    /\ winService.installed
    /\ \/ /\ winState = "SERVICE_START_PENDING"
          /\ winState' \in {"SERVICE_RUNNING", "SERVICE_STOPPED"}
       \/ /\ winState = "SERVICE_STOP_PENDING"
          /\ winState' = "SERVICE_STOPPED"
    /\ UNCHANGED <<winService, logSource, wpc, service_status, winOp, nOps>>
    /\ WinFrame

\* Service::create: register the log source (a failure panics), open the
\* manager, CreateServiceW (refused for an installed name), then set the
\* description, whose failure is not looked at.
WinCreate ==
    /\ WinBegin
    /\ \E config \in WinConfigs, registered \in BOOLEAN,
          manager \in ManagerResults,
          created \in IF winService.installed THEN {ERROR_SERVICE_EXISTS}
                      ELSE {0, ERROR_ACCESS_DENIED},
          described \in BOOLEAN :
         IF ~registered
            THEN /\ WinEnd("create", Panic,
                           <<Api("eventlog::register", FALSE, "none")>>)
                 /\ UNCHANGED <<winService, logSource>>
         ELSE IF manager # 0
            THEN /\ WinEnd("create", Err("WindowsError", manager),
                           <<Api("eventlog::register", TRUE, "none"),
                             Api("OpenSCManagerW", FALSE, "none")>>)
                 /\ logSource' = TRUE
                 /\ UNCHANGED winService
         ELSE IF created # 0
            THEN /\ WinEnd("create", Err("WindowsError", created),
                           <<Api("eventlog::register", TRUE, "none"),
                             Api("OpenSCManagerW", TRUE, "none"),
                             Api("CreateServiceW", FALSE, "none")>>)
                 /\ logSource' = TRUE
                 /\ UNCHANGED winService
         ELSE /\ WinEnd("create", Ok,
                        <<Api("eventlog::register", TRUE, "none"),
                          Api("OpenSCManagerW", TRUE, "none"),
                          Api("CreateServiceW", TRUE, "none"),
                          Api("ChangeServiceConfig2W", described, "none")>>)
              /\ logSource' = TRUE
              /\ winService' = ServiceEntry(TRUE, config, described)
    /\ UNCHANGED <<winState, service_status>>
    /\ WinFrame

\* Service::delete: open the manager, deregister the log source, open the
\* service, DeleteService.
WinDelete ==
    /\ WinBegin
    /\ \E manager \in ManagerResults, deleted \in {0, ERROR_ACCESS_DENIED} :
         IF manager # 0
            THEN /\ WinEnd("delete", Err("WindowsError", manager),
                           <<Api("OpenSCManagerW", FALSE, "none")>>)
                 /\ UNCHANGED <<winService, logSource>>
         ELSE IF ~winService.installed
            THEN /\ WinEnd("delete", Err("WindowsError", ERROR_SERVICE_DOES_NOT_EXIST),
                           <<Api("OpenSCManagerW", TRUE, "none"),
                             Api("eventlog::deregister", TRUE, "none"),
                             Api("OpenServiceW", FALSE, "none")>>)
                 /\ logSource' = FALSE
                 /\ UNCHANGED winService
         ELSE IF deleted # 0
            THEN /\ WinEnd("delete", Err("WindowsError", deleted),
                           <<Api("OpenSCManagerW", TRUE, "none"),
                             Api("eventlog::deregister", TRUE, "none"),
                             Api("OpenServiceW", TRUE, "none"),
                             Api("DeleteService", FALSE, "none")>>)
                 /\ logSource' = FALSE
                 /\ UNCHANGED winService
         ELSE /\ WinEnd("delete", Ok,
                        <<Api("OpenSCManagerW", TRUE, "none"),
                          Api("eventlog::deregister", TRUE, "none"),
                          Api("OpenServiceW", TRUE, "none"),
                          Api("DeleteService", TRUE, "none")>>)
              /\ logSource' = FALSE
              /\ winService' = NoService
    /\ UNCHANGED <<winState, service_status>>
    /\ WinFrame

\* Service::exists: open the manager (a failure panics), then whether the
\* service can be opened.
WinExists ==
    /\ WinBegin
    /\ \E manager \in ManagerResults :
         IF manager # 0
            THEN WinEnd("exists", Panic, <<Api("OpenSCManagerW", FALSE, "none")>>)
            ELSE WinEnd("exists", Bool(winService.installed),
                        <<Api("OpenSCManagerW", TRUE, "none"),
                          Api("OpenServiceW", winService.installed, "none")>>)
    /\ UNCHANGED <<winService, winState, logSource, service_status>>
    /\ WinFrame

(***************************************************************************)
(* The Platform Controller of the Android build (service/src/android.rs).  *)
(***************************************************************************)
\* The operating systems the repository has a backend file for: lib.rs
\* selects windows.rs or linux.rs; android.rs is the stub for Android.
Backends == {"linux", "windows", "android"}

AndroidCall(op, result) ==
    /\ backend = "android"
    /\ nOps < MaxOps
    /\ nOps' = nOps + 1
    /\ androidOp' = Call(op, result, <<>>)
    /\ UNCHANGED <<serviceVars, mainVars, linuxVars, winVars, backend>>

\* pub fn exists(&self) -> bool { false }
AndroidExists == AndroidCall("exists", Bool(FALSE))

\* Err(CreateError::NoSystemCtl)
AndroidCreate == AndroidCall("create", Err("NoSystemCtl", 0))

\* Err(StartStopError::NoSystemCtl)
AndroidStart == AndroidCall("start", Err("NoSystemCtl", 0))
AndroidStop == AndroidCall("stop", Err("NoSystemCtl", 0))

\* pub fn delete(&mut self) -> Result<(), std::io::Error> { Ok(()) }
AndroidDelete == AndroidCall("delete", Ok)

(***************************************************************************)
(* Specifications.                                                         *)
(***************************************************************************)
Dispatcher ==
    \/ Register
    \/ StoreHandle
    \/ ReleaseHandle
    \/ ReportStartPending
    \/ ReportRunning
    \/ HostBody
    \/ Join
    \/ ReportStopped
    \/ Return

Body ==
    \/ BodyPoll
    \/ BodyReturn
    \/ BodyPanic

Handler(h) ==
    \/ HandlerLock(h)
    \/ HandlerReport(h)
    \/ HandlerUnlock(h)
    \/ HandlerSend(h)

Next ==
    \/ Dispatcher
    \/ Body
    \/ \E h \in HandlerThreads : Handler(h)
    \/ \E h \in HandlerThreads : Deliver(h, Signals, MaxSignals)

Spec == Init /\ [][Next]_vars

\* Every thread that can take its next step is eventually scheduled: the
\* dispatcher thread, the OS threads running the handler, and the body's
\* thread or task. The OS is never obliged to deliver a signal.
Fairness ==
    /\ WF_vars(Dispatcher)
    /\ WF_vars(Body)
    /\ \A h \in HandlerThreads : WF_vars(Handler(h))

FairSpec == Init /\ [][Next]_vars /\ Fairness

\* The flooding environment: the OS delivers Stop after Stop, one call of the
\* handler at a time, until more signals than the bounded channel holds have
\* been delivered.
FloodThreads == {"os1"}
FloodLimit == ChannelCapacity + FloodExtra

FloodNext ==
    \/ Dispatcher
    \/ Body
    \/ \E h \in FloodThreads : Handler(h)
    \/ \E h \in FloodThreads : Deliver(h, FloodSignals, FloodLimit)

FloodFairness ==
    /\ WF_vars(Dispatcher)
    /\ WF_vars(Body)
    /\ \A h \in FloodThreads : WF_vars(Handler(h))

FloodSpec == Init /\ [][FloodNext]_vars /\ FloodFairness

\* What the OS may fail: nothing, the calls of one state, or every call.
ScmChoices == {{}, StatusStates} \cup {{state} : state \in StatusStates}

\* The process under an OS that fails the status calls of some states: which
\* ones is the OS's choice; controls go to one handler call at a time.
StatusInit ==
    /\ EntryInit("entry")
    /\ mpc = "dispatching"
    /\ dispatchResult = NoResult
    /\ argv = <<ServiceName>>
    /\ scmRejects \in ScmChoices
    /\ backend = "windows"
    /\ ControllerInit

StatusNext ==
    \/ Dispatcher
    \/ Body
    \/ \E h \in FloodThreads : Handler(h)
    \/ \E h \in FloodThreads : Deliver(h, Signals, MaxSignals)

StatusSpec == StatusInit /\ [][StatusNext]_vars /\ FloodFairness

\* The whole process, from main: Service::dispatch starts the dispatcher, the
\* OS passes an argument vector to the entry point and delivers Stop signals
\* to one handler call at a time.
\* Nothing has been called yet: main has not dispatched, the OS has not
\* called the entry point, the controller was not used.
NotDispatched ==
    /\ EntryInit("idle")
    /\ mpc = "main"
    /\ dispatchResult = NoResult
    /\ ScmAccepts
    /\ ControllerInit

MainInit ==
    /\ NotDispatched
    /\ argv \in ArgVectors
    /\ backend = "windows"

MainNext ==
    \/ StartDispatcherFails
    \/ StartDispatcherConnects
    \/ DispatchReturns
    \/ Dispatcher
    \/ Body
    \/ \E h \in FloodThreads : Handler(h)
    \/ \E h \in FloodThreads : Deliver(h, FloodSignals, MaxSignals)

MainSpec == MainInit /\ [][MainNext]_vars

\* The handler under every control: the OS calls it with any control, one
\* call at a time.
HandlerNext ==
    \/ Dispatcher
    \/ Body
    \/ \E h \in FloodThreads : Handler(h)
    \/ \E h \in FloodThreads : Deliver(h, AllSignals, MaxControls)

HandlerSpec == Init /\ [][HandlerNext]_vars

\* An administrator's program is about to call the controller for an
\* identity that was never installed; no service process is dispatched
\* meanwhile.
AdminInit ==
    /\ NotDispatched
    /\ flavor = "sync"
    /\ bodyKind = "poll"
    /\ argv = <<ServiceName>>
    /\ backend \in Backends

\* The Linux controller, one call after another.
LinuxNext ==
    \/ LinuxCreate
    \/ LinuxDelete
    \/ LinuxExists
    \/ LinuxStart
    \/ LinuxStop

LinuxInit == AdminInit /\ backend = "linux"

LinuxSpec == LinuxInit /\ [][LinuxNext]_vars

\* The Windows controller, one call after another, while the service manager
\* and the service go their own way.
WinNext ==
    \/ WinCreate
    \/ WinDelete
    \/ WinExists
    \/ WinStart
    \/ WinStop
    \/ WinPoll
    \/ WinServiceProgress

WinInit == AdminInit /\ backend = "windows"

WinSpec == WinInit /\ [][WinNext]_vars

\* The stub controller of the Android build.
AndroidNext ==
    \/ AndroidCreate
    \/ AndroidDelete
    \/ AndroidExists
    \/ AndroidStart
    \/ AndroidStop

\* The controller of whichever backend the crate was built for.
BackendNext ==
    \/ LinuxNext
    \/ WinNext
    \/ AndroidNext

BackendSpec == AdminInit /\ [][BackendNext]_vars

\* A Linux or Android build: the program dispatches its body, and the
\* controller is used meanwhile. Without a receiver the polling body never
\* leaves its loop.
UnixInit ==
    /\ NotDispatched
    /\ flavor = "sync"
    /\ argv = <<ServiceName>>
    /\ backend \in UnixBackends

UnixNext ==
    \/ UnixDispatch
    \/ BodyReturn
    \/ BodyPanic
    \/ UnixDispatchReturns
    \/ UnixDispatchUnwinds
    \/ LinuxNext
    \/ AndroidNext

UnixSpec == UnixInit /\ [][UnixNext]_vars

(***************************************************************************)
(* What an observer of the SetServiceStatus calls sees.                    *)
(***************************************************************************)
\* The states reported, in order.
ReportedStates == [i \in 1..Len(log) |-> log[i].state]

\* The states one party reported, in order.
StatesBy(who) ==
    LET own == SelectSeq(log, LAMBDA r : r.by = who)
    IN  [i \in 1..Len(own) |-> own[i].state]

IsPrefix(s, t) == Len(s) <= Len(t) /\ \A i \in 1..Len(s) : s[i] = t[i]

\* The order of the lifecycle phases.
PhaseRank(state) ==
    CASE state = "SERVICE_START_PENDING" -> 1
      [] state = "SERVICE_RUNNING"       -> 2
      [] state = "SERVICE_STOP_PENDING"  -> 3
      [] state = "SERVICE_STOPPED"       -> 4

FullCycle ==
    <<"SERVICE_START_PENDING", "SERVICE_RUNNING", "SERVICE_STOP_PENDING",
      "SERVICE_STOPPED">>

DispatcherCycle == <<"SERVICE_START_PENDING", "SERVICE_RUNNING", "SERVICE_STOPPED">>

HandlersIdle == \A h \in HandlerThreads : hpc[h] = "idle"

\* A dispatch cycle is over: the entry point has returned and no handler
\* call is in progress.
CycleOver == dpc = "returned" /\ HandlersIdle

\* A Stop or Shutdown was handled: only that makes the handler report.
StopHandled == \E i \in 1..Len(log) : log[i].by = "handler"

(***************************************************************************)
(* C1. Over a full dispatch cycle that includes a Stop signal the statuses *)
(* reported are exactly StartPending, Running, StopPending, Stopped, for   *)
(* every interleaving of the signals with the dispatcher.                  *)
(***************************************************************************)
C1_FixedOrder == (CycleOver /\ StopHandled) => ReportedStates = FullCycle

(***************************************************************************)
(* C2. The reported phase only moves forward: no report is at an earlier   *)
(* phase than the report before it, and nothing is reported after Stopped. *)
(***************************************************************************)
C2_PhaseForward ==
    \A i \in 1..Len(log) :
        /\ i > 1 => PhaseRank(log[i - 1].state) <= PhaseRank(log[i].state)
        /\ log[i].state = "SERVICE_STOPPED" => i = Len(log)

(***************************************************************************)
(* C3. An entry point that has returned to the OS has reported Stopped     *)
(* exactly once, and that report is the last thing it did: the step that   *)
(* returns is taken from the position right after the Stopped report.      *)
(***************************************************************************)
StoppedReportsByDispatcher ==
    Cardinality({i \in 1..Len(log) :
        log[i].by = "dispatcher" /\ log[i].state = "SERVICE_STOPPED"})

LastStateBy(who) ==
    LET own == StatesBy(who) IN IF own = <<>> THEN "none" ELSE own[Len(own)]

C3_ReturnedAfterStopped ==
    dpc = "returned" =>
        /\ StoppedReportsByDispatcher = 1
        /\ LastStateBy("dispatcher") = "SERVICE_STOPPED"

C3_Witness ==
    /\ dpc = "returned"
    /\ StoppedReportsByDispatcher = 1
    /\ StopHandled

(***************************************************************************)
(* C4. The dispatcher thread issues StartPending, Running, Stopped, in     *)
(* that order and once each (all three by the time it returns); the        *)
(* handler issues StopPending only.                                        *)
(***************************************************************************)
C4_WhoReportsWhat ==
    /\ IsPrefix(StatesBy("dispatcher"), DispatcherCycle)
    /\ dpc \in {"stopped", "returned"} => StatesBy("dispatcher") = DispatcherCycle
    /\ \A i \in 1..Len(log) :
          log[i].by = "handler" => log[i].state = "SERVICE_STOP_PENDING"

C4_Witness ==
    /\ dpc = "returned"
    /\ StatesBy("dispatcher") = DispatcherCycle
    /\ Len(StatesBy("handler")) >= 2

LastReported == IF log = <<>> THEN "none" ELSE log[Len(log)].state

DispatcherReportedStopped == StoppedReportsByDispatcher >= 1

BodyGotStop == \E i \in 1..Len(received) : received[i] = StopEvent

(***************************************************************************)
(* C5. A Stop (or Shutdown) whose handling starts while the reported       *)
(* status is Running leads to the polling body receiving a Stop event.     *)
(***************************************************************************)
StopHandledWhileRunning(h) ==
    /\ hpc[h] \in {"lock", "locked"}
    /\ IsStop(hctl[h])
    /\ LastReported = "SERVICE_RUNNING"

C5_StopReachesBody ==
    \A h \in HandlerThreads :
        (bodyKind = "poll" /\ StopHandledWhileRunning(h)) ~> BodyGotStop

\* The Stop was the only signal, was handled during Running, and the body
\* took it from its receiver.
C5_Witness ==
    /\ bodyKind = "poll"
    /\ nSig = 1
    /\ IsPrefix(<<"SERVICE_START_PENDING", "SERVICE_RUNNING",
                  "SERVICE_STOP_PENDING">>, ReportedStates)
    /\ received = <<StopEvent>>

(***************************************************************************)
(* C6. Stopped is reported only when the body is no longer executing, and  *)
(* once the body has returned Stopped is eventually reported.              *)
(***************************************************************************)
C6_StoppedAfterBody ==
    /\ [](DispatcherReportedStopped => bpc \in {"returned", "panicked"})
    /\ (bpc = "returned") ~> DispatcherReportedStopped

C6_Witness ==
    /\ bpc = "returned"
    /\ DispatcherReportedStopped
    /\ BodyGotStop

\* A step of the program itself: of the dispatcher, the body or a handler
\* call in progress. The delivery of a new signal by the OS is not one.
ProgramStep ==
    \/ Dispatcher
    \/ Body
    \/ \E h \in HandlerThreads : Handler(h)

\* No thread of the program can take a step, now or ever again unless the
\* OS delivers a new signal.
Quiescent == ~ENABLED ProgramStep

(***************************************************************************)
(* C7. Every call of the control handler returns after finitely many       *)
(* steps, however slowly, or whether at all, the body drains the channel:  *)
(* a call in progress (in a live process) is never left with no thread of  *)
(* the program able to step, which is where it would wait forever.         *)
(***************************************************************************)
C7_HandlerReturns ==
    \A h \in FloodThreads :
        (hpc[h] # "idle" /\ ProcessAlive) => ~Quiescent

(***************************************************************************)
(* C8. In the asynchronous flavour a handled Stop ends the dispatch        *)
(* whether or not the body completes or reads the channel: once the Stop   *)
(* was handled and no thread of the program can step any more, the         *)
(* dispatcher has reported Stopped.                                        *)
(***************************************************************************)
C8_StopEndsAsyncDispatch ==
    (/\ flavor = "async"
     /\ bodyKind \in {"poll", "ret", "never"}
     /\ StopHandled
     /\ HandlersIdle
     /\ Quiescent) => DispatcherReportedStopped

(***************************************************************************)
(* C9. A panic of the hosted body does not leave the entry point, and the  *)
(* dispatcher, once it can do no more, has reported Stopped.               *)
(***************************************************************************)
C9_PanicAbsorbed ==
    bpc = "panicked" =>
        /\ ProcessAlive
        /\ (~ENABLED Dispatcher) => DispatcherReportedStopped

(***************************************************************************)
(* C10. After a rejected registration (a null handle) the body is never    *)
(* hosted and no status is reported with the null handle.                  *)
(***************************************************************************)
RegistrationRejected == dpc # "entry" /\ handle = NullHandle

C10_RejectedRegistrationStops ==
    RegistrationRejected =>
        /\ bpc = "notstarted"
        /\ \A i \in 1..Len(log) : log[i].handle # NullHandle

(***************************************************************************)
(* C11. When the start-dispatcher primitive fails, Service::dispatch       *)
(* returns an error carrying a platform error code and that is the end:    *)
(* the entry point is never called (no retry), the body is not run and no  *)
(* status is reported. It returns Ok only when the primitive succeeded,    *)
(* that is when the entry point was called and has returned.               *)
(***************************************************************************)
C11_DispatchFailure ==
    /\ mpc = "returned" => dispatchResult # NoResult
    /\ dispatchResult.kind = "WindowsError" =>
          /\ dispatchResult.code \in DispatcherErrors
          /\ mpc = "returned"
          /\ dpc = "idle"
          /\ bpc = "notstarted"
          /\ bodyArgs = NoBodyArgs
          /\ log = <<>>
    /\ dispatchResult = Ok => dpc = "returned"
    /\ mpc # "returned" => dispatchResult = NoResult

C11_Witness ==
    /\ mpc = "returned"
    /\ dispatchResult.kind = "WindowsError"
    /\ dispatchResult.code = 1063

(***************************************************************************)
(* C12. In both flavours the hosted body receives exactly the argument     *)
(* vector the OS passed to the entry point: the same elements in the same  *)
(* order, nothing added, dropped or replaced.                              *)
(***************************************************************************)
C12_BodyReceivesArgv ==
    bpc # "notstarted" =>
        /\ bodyArgs.given
        /\ bodyArgs.args = argv

(***************************************************************************)
(* C13. On Stop and on Shutdown alike, a call of the handler reports       *)
(* StopPending with a non-zero wait hint, then emits exactly one Stop      *)
(* event into the channel, then returns 0: the position from which it      *)
(* sends is entered only from the position right after the report, the     *)
(* report is the only status the call issues, and the send is the only     *)
(* change the call makes to the channel.                                   *)
(***************************************************************************)
\* The handler thread h takes a step of a call for Stop or Shutdown.
StopCallStep(h) == hpc'[h] # hpc[h] /\ IsStop(hctl'[h])

IsStopPendingReport(r) ==
    /\ r.by = "handler"
    /\ r.state = "SERVICE_STOP_PENDING"
    /\ r.wait_hint > 0

StopCallOrder(h) ==
    StopCallStep(h) =>
        /\ hpc'[h] = "lock"     => hpc[h] = "idle"
        /\ hpc'[h] = "locked"   => hpc[h] = "lock"
        /\ hpc'[h] = "reported" => hpc[h] = "locked"
        /\ hpc'[h] = "send"     => hpc[h] = "reported"
        /\ hpc'[h] = "idle"     => hpc[h] = "send"
        /\ IF hpc'[h] = "reported"
              THEN /\ Len(log') = Len(log) + 1
                   /\ SubSeq(log', 1, Len(log)) = log
                   /\ IsStopPendingReport(log'[Len(log')])
              ELSE log' = log
        /\ IF hpc'[h] = "idle"
              THEN /\ ReceiverAlive => chan' = Append(chan, StopEvent)
                   /\ ~ReceiverAlive => chan' = chan
                   /\ hret'[h] = 0
              ELSE chan' = chan

C13_StopHandling == [][\A h \in HandlerThreads : StopCallOrder(h)]_vars

\* A Shutdown was handled to its end: reported, the Stop event queued, 0
\* returned.
C13_Witness ==
    \E h \in HandlerThreads :
        /\ hctl[h].control = "SERVICE_CONTROL_SHUTDOWN"
        /\ hpc[h] = "idle"
        /\ hret[h] = 0
        /\ StopHandled
        /\ chan = <<StopEvent>>

\* The OS calls handler thread h (the only one it uses here) with a control.
Invoked(h) == nSig' = nSig + 1

\* Handler thread h completes the send of its call and returns.
SendReturns(h) == hpc[h] = "send" /\ hpc'[h] = "idle"

\* What a call that only emits the event ev does, step by step: it goes to
\* its send without touching the channel, the statuses or the status
\* handle, and its send queues ev once (nothing if the receiver is gone)
\* and returns 0.
EmitsOnly(h, ev) ==
    /\ Invoked(h) =>
          /\ hpc'[h] = "send"
          /\ UNCHANGED <<chan, log, SERVICE_HANDLE, mutex>>
    /\ SendReturns(h) =>
          /\ ReceiverAlive => chan' = Append(chan, ev)
          /\ ~ReceiverAlive => chan' = chan
          /\ hret'[h] = 0
          /\ UNCHANGED <<log, SERVICE_HANDLE, mutex>>

(***************************************************************************)
(* C14. In both flavours a Pause makes the handler emit exactly one Pause  *)
(* event and return 0, a Continue exactly one Continue event and return 0, *)
(* and neither issues a status report.                                     *)
(***************************************************************************)
C14_PauseContinue ==
    [][\A h \in FloodThreads :
        /\ hctl'[h].control = "SERVICE_CONTROL_PAUSE" =>
              EmitsOnly(h, Event("Pause", 0))
        /\ hctl'[h].control = "SERVICE_CONTROL_CONTINUE" =>
              EmitsOnly(h, Event("Continue", 0))]_vars

(***************************************************************************)
(* C15. For a session change with a known sub-reason the handler emits     *)
(* exactly one event, of the variant of that sub-reason and carrying the   *)
(* session id of the notification, and returns 0; for an unknown           *)
(* sub-reason it emits nothing and returns 0. Both flavours alike.         *)
(***************************************************************************)
\* The variant each sub-reason stands for.
VariantOfReason ==
    [WTS_CONSOLE_CONNECT    |-> "SessionConnect",
     WTS_CONSOLE_DISCONNECT |-> "SessionDisconnect",
     WTS_REMOTE_CONNECT     |-> "SessionRemoteConnect",
     WTS_REMOTE_DISCONNECT  |-> "SessionRemoteDisconnect",
     WTS_SESSION_LOGON      |-> "SessionLogon",
     WTS_SESSION_LOGOFF     |-> "SessionLogoff",
     WTS_SESSION_LOCK       |-> "SessionLock",
     WTS_SESSION_UNLOCK     |-> "SessionUnlock"]

\* A call that does nothing but return the code.
ReturnsOnly(h, code) ==
    Invoked(h) =>
        /\ hpc'[h] = "idle"
        /\ hret'[h] = code
        /\ UNCHANGED <<chan, log, SERVICE_HANDLE, mutex>>

SessionCall(h) ==
    hctl'[h].control = "SERVICE_CONTROL_SESSIONCHANGE" =>
        IF hctl'[h].event_type \in DOMAIN VariantOfReason
           THEN EmitsOnly(h, Event(VariantOfReason[hctl'[h].event_type],
                                   hctl'[h].session_id))
           ELSE ReturnsOnly(h, 0)

C15_SessionChange == [][\A h \in FloodThreads : SessionCall(h)]_vars

\* A logoff of session 2 was handled: its event is queued behind nothing
\* else, and 0 was returned.
C15_Witness ==
    \E h \in FloodThreads :
        /\ hctl[h] = Signal("SERVICE_CONTROL_SESSIONCHANGE", "WTS_SESSION_LOGOFF", 2)
        /\ hpc[h] = "idle"
        /\ hret[h] = 0
        /\ chan = <<Event("SessionLogoff", 2)>>
        /\ flavor = "async"

(***************************************************************************)
(* C16. For any control other than Stop, Shutdown, Pause, Continue and     *)
(* session change the handler returns the "not implemented" code and does  *)
(* nothing else: no event, no status report, the status handle untouched.  *)
(***************************************************************************)
HandledControls ==
    {"SERVICE_CONTROL_STOP", "SERVICE_CONTROL_SHUTDOWN", "SERVICE_CONTROL_PAUSE",
     "SERVICE_CONTROL_CONTINUE", "SERVICE_CONTROL_SESSIONCHANGE"}

C16_OtherControls ==
    [][\A h \in FloodThreads :
        hctl'[h].control \notin HandledControls =>
            ReturnsOnly(h, ERROR_CALL_NOT_IMPLEMENTED)]_vars

\* A power event was answered with "not implemented" after a Stop had been
\* handled: the Stop's report is the only one by the handler.
C16_Witness ==
    \E h \in FloodThreads :
        /\ hctl[h].control = "SERVICE_CONTROL_POWEREVENT"
        /\ hpc[h] = "idle"
        /\ hret[h] = ERROR_CALL_NOT_IMPLEMENTED
        /\ Len(StatesBy("handler")) = 1

\* An administrator's create call on Linux completes in this step.
CreateCompletes == nOps' = nOps + 1 /\ linuxOp'.op = "create"

(***************************************************************************)
(* C17. Round trip on Linux: exists() is false for an identity never       *)
(* installed, true after a create that succeeded, false again after a      *)
(* delete that succeeded, for any sequence of create and delete calls,     *)
(* judged by the last one that succeeded.                                  *)
(***************************************************************************)
C17_RoundTrip ==
    /\ lastSuccess = "none"   => ~exists(unitFile)
    /\ lastSuccess = "create" => exists(unitFile)
    /\ lastSuccess = "delete" => ~exists(unitFile)

(***************************************************************************)
(* C18. A create on an identity that a successful create installed, with   *)
(* no delete in between, returns an error and leaves the installed         *)
(* definition as it was.                                                   *)
(***************************************************************************)
C18_SecondCreateRejected ==
    [][(CreateCompletes /\ lastSuccess = "create") =>
          /\ linuxOp'.result # Ok
          /\ unitFile' = unitFile]_vars

(***************************************************************************)
(* C19. A Linux create that returns an error for an identity that did not  *)
(* exist before the call leaves no unit file: exists() is false after it.  *)
(***************************************************************************)
C19_FailedCreateLeavesNothing ==
    [][(CreateCompletes /\ ~exists(unitFile) /\ linuxOp'.result # Ok) =>
          ~exists(unitFile')]_vars

\* The last service state the current or last Windows call got from the OS.
StatesObserved ==
    SelectSeq(winOp.calls, LAMBDA c : c.ok /\ c.state # "none")

LastObserved ==
    IF StatesObserved = <<>> THEN "none"
    ELSE StatesObserved[Len(StatesObserved)].state

\* The OS refused the request of the call.
RequestRejected ==
    \E i \in 1..Len(winOp.calls) :
        /\ winOp.calls[i].api \in {"StartServiceW", "ControlService"}
        /\ ~winOp.calls[i].ok

TerminalState(op) ==
    IF op = "start" THEN "SERVICE_RUNNING" ELSE "SERVICE_STOPPED"

IsFailure(result) == result.kind \notin {"Ok", "none", "panic"}

(***************************************************************************)
(* C20. Windows start and stop return success only if the last status      *)
(* observed from the OS is the requested terminal state (Running for       *)
(* start, Stopped for stop); when the request is rejected, or the last     *)
(* status observed is another one, the call returns a failure.             *)
(***************************************************************************)
C20_StartStopOutcome ==
    (winOp.op \in {"start", "stop"} /\ wpc \notin {"start_poll", "stop_poll"}) =>
        /\ winOp.result = Ok => LastObserved = TerminalState(winOp.op)
        /\ (RequestRejected \/ LastObserved # TerminalState(winOp.op)) =>
              IsFailure(winOp.result)

\* The controller call the built backend made last, and whether the
\* identity is installed there (what its exists() goes by).
CurrentOp ==
    CASE backend = "linux"   -> linuxOp
      [] backend = "windows" -> winOp
      [] OTHER               -> androidOp

Installed ==
    CASE backend = "linux"   -> exists(unitFile)
      [] backend = "windows" -> winService.installed
      [] OTHER               -> FALSE

\* A call of the controller is entered in this step.
CallMade(op) == nOps' = nOps + 1 /\ CurrentOp'.op = op

(***************************************************************************)
(* C21. On every backend a delete of an identity that is not installed     *)
(* returns an error, never Ok, and the identity stays not installed.       *)
(***************************************************************************)
C21_DeleteOfAbsentFails ==
    [][(CallMade("delete") /\ ~Installed) =>
          /\ CurrentOp'.result # Ok
          /\ ~Installed']_vars

(***************************************************************************)
(* C22. No call of the Platform Controller ends in a panic: when the       *)
(* service manager cannot be opened, when the service is not installed or  *)
(* when the OS refuses the start, the call returns an error value (false   *)
(* for exists) and the calling process lives on.                           *)
(***************************************************************************)
C22_NoPanic ==
    /\ winOp.result # Panic
    /\ wpc # "panicked"

(***************************************************************************)
(* C23. The unit file written for a definition is, line for line, the      *)
(* template: [Unit], Description=<description>, a blank line, [Service],   *)
(* User=<username> only when a username is set, WorkingDirectory=          *)
(* <config_path>, ExecStart=<binary> and the arguments joined by single    *)
(* spaces, a blank line, [Install], WantedBy=multi-user.target.            *)
(***************************************************************************)
\* The arguments with one space between neighbours, as pieces.
JoinedBySpaces(arguments) ==
    [i \in 1..(2 * Len(arguments) - 1) |->
        IF i % 2 = 1 THEN arguments[(i + 1) \div 2] ELSE " "]

UserLines(username) ==
    IF username = None THEN <<>> ELSE <<<<"User=", username[1]>>>>

Template(config) ==
    <<<<"[Unit]">>,
      <<"Description=", config.description>>,
      <<>>,
      <<"[Service]">>>>
    \o UserLines(config.username)
    \o <<<<"WorkingDirectory=", config.config_path>>,
         <<"ExecStart=", config.binary, " ">> \o JoinedBySpaces(config.arguments),
         <<>>,
         <<"[Install]">>,
         <<"WantedBy=multi-user.target">>>>

\* A create has written the whole unit file.
UnitFileWritten == unitFile.present /\ unitFile.content # <<>>

C23_UnitFileTemplate ==
    UnitFileWritten => unitFile.content \in {Template(config) : config \in Configs}

(***************************************************************************)
(* C24. The mutex of the status handle is held only to read or write the   *)
(* handle: neither the dispatcher nor a handler call holds it in the step  *)
(* in which it calls SetServiceStatus or sends on the channel.             *)
(***************************************************************************)
\* The dispatcher issues a status report in this step.
DispatcherReports ==
    /\ Len(log') = Len(log) + 1
    /\ log'[Len(log')].by = "dispatcher"

\* Handler thread h issues its status report in this step.
HandlerReports(h) == hpc[h] = "locked" /\ hpc'[h] = "reported"

C24_MutexOnlyForHandle ==
    [][/\ DispatcherReports => mutex # "dispatcher"
       /\ \A h \in HandlerThreads :
             /\ HandlerReports(h) => mutex # h
             /\ SendReturns(h) => mutex # h]_vars

(***************************************************************************)
(* C25. Whenever a handler call reports a status, the status handle has    *)
(* already been stored by the dispatcher: every report of a handler goes   *)
(* through the handle the registration returned, never through the null    *)
(* handle, whenever the control arrives after the registration.            *)
(***************************************************************************)
C25_HandlerReportsThroughRegisteredHandle ==
    \A i \in 1..Len(log) :
        log[i].by = "handler" =>
            /\ log[i].handle # NullHandle
            /\ log[i].handle = handle

(***************************************************************************)
(* C26. The status handle is null until the dispatcher stores the          *)
(* registered handle, it is written only by the dispatcher and once, and   *)
(* it is null again once the dispatch has returned, so that a control      *)
(* handled after the return finds no stale handle to report through.       *)
(***************************************************************************)
\* The dispatch has not yet reached the store.
BeforeStore == dpc \in {"entry", "registered"}

C26_HandleLifecycle ==
    /\ [](BeforeStore => SERVICE_HANDLE = NullHandle)
    /\ [][SERVICE_HANDLE' # SERVICE_HANDLE =>
             /\ dpc = "registered"
             /\ mutex' = "dispatcher"]_vars
    /\ [](dpc = "returned" => SERVICE_HANDLE = NullHandle)

(***************************************************************************)
(* C27. The dispatcher and the concurrent handler calls never deadlock on  *)
(* the mutex of the status handle: a handler call that asks for the guard  *)
(* gets it and gives it back, whoever held it meanwhile, and the           *)
(* dispatcher that asks for it gets it and goes on to its next report:     *)
(* for as long as the process lives, no thread stays for ever waiting for  *)
(* the guard or holding it.                                                *)
(***************************************************************************)
\* Handler thread h waits for the guard or holds it.
InGuardSection(h) == hpc[h] \in {"lock", "locked", "reported"}

\* The dispatcher waits for the guard or holds it.
DispatcherInGuardSection == dpc \in {"registered", "locked"}

C27_NoMutexDeadlock ==
    /\ \A h \in HandlerThreads : []<>(~InGuardSection(h) \/ ~ProcessAlive)
    /\ []<>(~DispatcherInGuardSection)

\* A handler call waits for the guard while another thread holds it.
C27_Witness ==
    \E h \in HandlerThreads : hpc[h] = "lock" /\ mutex \notin {"free", h}

(***************************************************************************)
(* C28. In the synchronous flavour cancellation is cooperative only: with  *)
(* a body that never polls and never returns, Stopped is never reported    *)
(* and, once a Stop has been handled, the last reported status is          *)
(* StopPending from then on; a body that returns after it observed Stop    *)
(* leads to the Stopped report.                                            *)
(***************************************************************************)
\* The synchronous flavour hosting the body that neither polls nor returns.
SyncNeverBody == flavor = "sync" /\ bodyKind = "never"

C28_CooperativeOnly ==
    /\ [](SyncNeverBody => ~DispatcherReportedStopped)
    /\ []((SyncNeverBody /\ StopHandled) =>
             LastReported = "SERVICE_STOP_PENDING")
    /\ (flavor = "sync" /\ BodyGotStop /\ bpc = "returned")
          ~> DispatcherReportedStopped

(***************************************************************************)
(* C29. Each handled control that maps to an event places exactly one      *)
(* event in the channel (while the body holds the receiver), the body      *)
(* receives every event at most once, and in the order of emission: a      *)
(* send appends its one event at the tail, a receive takes the oldest      *)
(* event out of the channel, nothing else changes the channel short of     *)
(* the receiver being dropped, and the events received and queued never    *)
(* outnumber the controls delivered.                                       *)
(***************************************************************************)
\* The body takes a message from its receiver in this step.
Receives == received' # received

C29_ChannelDelivery ==
    /\ [](Len(received) + Len(chan) <= nSig)
    /\ [][/\ \A h \in HandlerThreads :
               (SendReturns(h) /\ ReceiverAlive) =>
                   chan' = Append(chan, HandlerEvent(hctl[h]))
          /\ Receives =>
               /\ chan # <<>>
               /\ received' = Append(received, Head(chan))
               /\ chan' = Tail(chan) \/ ~ReceiverAlive'
          /\ chan' # chan =>
               \/ \E h \in HandlerThreads : SendReturns(h)
               \/ Receives
               \/ ~ReceiverAlive']_vars

\* Two different events were emitted and the body received both, the
\* older one first.
C29_Witness ==
    /\ Len(received) = 2
    /\ received[1] = Event("Pause", 0)
    /\ received[2] = StopEvent
    /\ HandlersIdle

(***************************************************************************)
(* C30. A Stop or Shutdown handled at any point after the registration,    *)
(* before the Running report or the start of the body included, is not     *)
(* lost: once its handler call is over the Stop event is in the channel    *)
(* until the polling body takes it, and the body does take it (both facts  *)
(* are stable once true, so the second reads: always eventually, a         *)
(* handled Stop has been received).                                        *)
(***************************************************************************)
\* Handler thread h is in the middle of a Stop or Shutdown call.
StopInProgress(h) == hpc[h] # "idle" /\ IsStop(hctl[h])

StopQueued == \E i \in 1..Len(chan) : chan[i] = StopEvent

C30_StopNotLost ==
    /\ []((/\ bodyKind = "poll"
           /\ StopHandled
           /\ \A h \in HandlerThreads : ~StopInProgress(h)
           /\ ~BodyGotStop) => StopQueued)
    /\ []<>((bodyKind = "poll" /\ StopHandled) => BodyGotStop)

\* The Stop was handled before the dispatcher's first report, and the
\* polling body received it after it was started.
C30_Witness ==
    /\ bodyKind = "poll"
    /\ log # <<>>
    /\ log[1].by = "handler"
    /\ BodyGotStop

(***************************************************************************)
(* C31. A control handled after the body has returned and dropped its      *)
(* receiver neither fails nor blocks the handler: the send gives its       *)
(* message back, which is discarded (the channel is left as it was), the   *)
(* call returns 0, a Stop or Shutdown call reaches its send only through   *)
(* its StopPending report, and every such call comes to its end.           *)
(***************************************************************************)
BodyHasReturned == bpc = "returned"

\* Handler thread h arrives at its send in this step.
ReachesSend(h) == hpc[h] # "send" /\ hpc'[h] = "send"

C31_SendAfterReceiverDropped ==
    /\ [][\A h \in HandlerThreads :
            /\ (BodyHasReturned /\ SendReturns(h)) =>
                  /\ chan' = chan
                  /\ hret'[h] = 0
            /\ (BodyHasReturned /\ HandlerReports(h)) =>
                  log' = Append(log, StatusReport("handler", SERVICE_HANDLE,
                                     "SERVICE_STOP_PENDING", StopWaitHint))
            /\ (BodyHasReturned /\ ReachesSend(h) /\ IsStop(hctl'[h])) =>
                  hpc[h] = "reported"]_vars
    /\ []<>(BodyHasReturned => HandlersIdle)

\* A Stop was handled from its report to its return after the dispatcher
\* had reported Stopped, that is after the body had returned.
C31_Witness ==
    /\ BodyHasReturned
    /\ DispatcherReportedStopped
    /\ log[Len(log)].by = "handler"
    /\ HandlersIdle

(***************************************************************************)
(* C32. A failure of the OS set-status call, at whatever phase, is not     *)
(* fatal and changes nothing else: the step that makes the failed call     *)
(* only moves its thread on, the dispatcher still hosts the body and       *)
(* issues its reports up to Stopped, and the handler still emits the Stop  *)
(* event and returns 0; while the process lives every handler call ends,   *)
(* and after a Stop a body that returns leads to the dispatcher's return.  *)
(***************************************************************************)
\* The status call made in this step fails.
FailedReport == Len(log') = Len(log) + 1 /\ ~log'[Len(log')].ok

SomeReportFailed == \E i \in 1..Len(log) : ~log[i].ok

C32_StatusFailureNotFatal ==
    /\ [][FailedReport =>
            /\ UNCHANGED <<handle, SERVICE_HANDLE, mutex, chan, bpc, received,
                           hret, hctl, bodyArgs>>
            /\ dpc' # "aborted"
            /\ DispatcherReports =>
                  /\ dpc' # dpc
                  /\ UNCHANGED hpc
            /\ ~DispatcherReports =>
                  /\ UNCHANGED dpc
                  /\ \E h \in FloodThreads : HandlerReports(h)]_vars
    /\ [](dpc \in {"stopped", "returned"} =>
             /\ StatesBy("dispatcher") = DispatcherCycle
             /\ bpc # "notstarted")
    /\ [][\A h \in FloodThreads :
            (SendReturns(h) /\ IsStop(hctl[h])) =>
                /\ ReceiverAlive => chan' = Append(chan, StopEvent)
                /\ hret'[h] = 0]_vars
    /\ []<>(bodyKind \in {"ret", "poll"} /\ StopHandled => dpc = "returned")
    /\ []<>(HandlersIdle \/ ~ProcessAlive)

\* The OS failed every status call of a whole cycle, the Stop's included,
\* and the body still got its Stop event and the dispatcher returned.
C32_Witness ==
    /\ dpc = "returned"
    /\ StopHandled
    /\ \A i \in 1..Len(log) : ~log[i].ok
    /\ handle # NullHandle
    /\ BodyGotStop

(***************************************************************************)
(* C33. In Windows start and stop a turn of the poll loop ends the loop    *)
(* when the status query fails or the state it returns is not the pending  *)
(* one, and a failed query makes the call return a failure: not success,   *)
(* and no further turn.                                                    *)
(***************************************************************************)
InPollLoop == wpc \in {"start_poll", "stop_poll"}

\* The status query made by the call in this step.
Query == winOp'.calls[Len(winOp'.calls)]

\* The call in progress makes one status query in this step.
Queries ==
    /\ InPollLoop
    /\ Len(winOp'.calls) = Len(winOp.calls) + 1
    /\ Query.api = "QueryServiceStatus"

C33_PollLoopEnds ==
    [][Queries =>
         /\ (~Query.ok \/ Query.state # PendingState) => ~InPollLoop'
         /\ ~Query.ok => IsFailure(winOp'.result)]_vars

(***************************************************************************)
(* C34. Windows create is atomic: a create that returns an error leaves    *)
(* the service entry and the log source as they were (for a name that was  *)
(* not installed: no entry, no log source), and a create that returns Ok   *)
(* has installed the entry and set its description.                        *)
(***************************************************************************)
\* A Windows create call is made and ends in this step.
WinCreates == nOps' = nOps + 1 /\ winOp'.op = "create"

C34_WinCreateAtomic ==
    [][WinCreates =>
         /\ IsFailure(winOp'.result) => UNCHANGED <<winService, logSource>>
         /\ winOp'.result = Ok =>
               /\ winService'.installed
               /\ winService'.described]_vars

(***************************************************************************)
(* C35. exists() changes no state: whatever is installed, the unit file,   *)
(* the service manager's entry and the service's run state are the same    *)
(* after the call as before, and of two consecutive exists() calls the     *)
(* second answers what the first answered.                                 *)
(***************************************************************************)
Answers == {Bool(TRUE), Bool(FALSE)}

C35_ExistsChangesNothing ==
    [][CallMade("exists") =>
         /\ UNCHANGED <<unitFile, winService, winState, logSource>>
         /\ (CurrentOp.op = "exists" /\ CurrentOp.result \in Answers
               /\ CurrentOp'.result \in Answers) =>
                  CurrentOp'.result = CurrentOp.result]_vars

\* An exists() call, the third call made, said true of an installed identity.
C35_Witness ==
    /\ Installed
    /\ CurrentOp.op = "exists"
    /\ CurrentOp.result = Bool(TRUE)
    /\ nOps = 3

(***************************************************************************)
(* C36. Linux create returns Ok only if the unit file was written and a    *)
(* daemon-reload was run after the write and succeeded; a failure to       *)
(* create or to write the file returns that I/O error and no daemon-reload *)
(* is run; a failed daemon-reload is returned as an error. For whatever    *)
(* file is there, every definition and every behaviour of the file system  *)
(* and of systemctl.                                                       *)
(***************************************************************************)
Reloads(calls) == \E i \in 1..Len(calls) : calls[i] = "systemctl daemon-reload"

C36_LinuxCreateOutcome ==
    \A config \in Configs, env \in CreateEnvs :
        LET out == create(unitFile, config, env) IN
            /\ out.result = Ok =>
                  /\ out.file = File(TRUE, build_systemd_file(config))
                  /\ out.calls = <<"File::create", "write_all",
                                   "systemctl daemon-reload">>
                  /\ env.reload = "success"
            /\ env.create # 0 =>
                  /\ out.result = Err("FileIoError", env.create)
                  /\ ~Reloads(out.calls)
            /\ (env.create = 0 /\ env.write # 0) =>
                  /\ out.result = Err("FileIoError", env.write)
                  /\ ~Reloads(out.calls)
            /\ (env.create = 0 /\ env.write = 0 /\ env.reload # "success") =>
                  /\ IsFailure(out.result)
                  /\ Reloads(out.calls)

\* A create wrote the file, reloaded and returned Ok.
C36_Witness ==
    /\ linuxOp.op = "create"
    /\ linuxOp.result = Ok
    /\ Reloads(linuxOp.calls)
    /\ unitFile.present
    /\ unitFile.content # <<>>

(***************************************************************************)
(* C37. Linux start and stop each run systemctl once, with their own       *)
(* subcommand, and never again: the call returns Ok iff the process ran    *)
(* and exited successfully, NoSystemCtl if it could not be run and         *)
(* SystemCtlFailed if it exited unsuccessfully; the unit file is not       *)
(* touched.                                                                *)
(***************************************************************************)
\* The systemctl run of each operation.
Subcommand(op) == IF op = "start" THEN "systemctl start" ELSE "systemctl stop"

C37_LinuxStartStop ==
    /\ [](\A outcome \in CommandOutcomes :
            /\ systemctl(outcome) = Ok <=> outcome = "success"
            /\ outcome = "not_run" => systemctl(outcome) = Err("NoSystemCtl", 0)
            /\ outcome = "failure" =>
                  systemctl(outcome) = Err("SystemCtlFailed", 0))
    /\ [][\A op \in {"start", "stop"} :
            (backend = "linux" /\ CallMade(op)) =>
                /\ linuxOp'.calls = <<Subcommand(op)>>
                /\ linuxOp'.result \in
                      {systemctl(outcome) : outcome \in CommandOutcomes}
                /\ UNCHANGED unitFile]_vars

\* A start whose one systemctl run exited unsuccessfully came back as
\* SystemCtlFailed.
C37_Witness ==
    /\ linuxOp.op = "start"
    /\ linuxOp.calls = <<"systemctl start">>
    /\ linuxOp.result = Err("SystemCtlFailed", 0)

(***************************************************************************)
(* C38. A Windows delete that fails (the service is not installed, or the  *)
(* OS rejects the deletion) leaves the service entry and the log source    *)
(* as they were: the log source is deregistered only by a delete that      *)
(* removes the service entry.                                              *)
(***************************************************************************)
\* A Windows delete call is made and ends in this step.
WinDeletes == nOps' = nOps + 1 /\ winOp'.op = "delete"

C38_FailedDeleteKeepsLogSource ==
    [][WinDeletes =>
         /\ IsFailure(winOp'.result) => UNCHANGED <<winService, logSource>>
         /\ logSource' # logSource =>
               /\ winService.installed
               /\ ~winService'.installed]_vars

(***************************************************************************)
(* C39. On Linux and in the Android stub dispatch runs the body once, on   *)
(* the calling thread, with None for receiver and sender; it reports no    *)
(* status, queues no event, returns Ok only after the body has returned    *)
(* and never an error, so the body never receives a Stop event.            *)
(***************************************************************************)
C39_UnixDispatch ==
    /\ [](/\ log = <<>>
          /\ chan = <<>>
          /\ received = <<>>
          /\ ~BodyGotStop
          /\ dpc = "idle")
    /\ [](bpc # "notstarted" => bodyArgs = NoneNone)
    /\ [](bpc = "running" => mpc = "dispatching")
    /\ [](dispatchResult \in {NoResult, Ok})
    /\ [](dispatchResult = Ok => (bpc = "returned" /\ mpc = "returned"))
    /\ [][bpc' # bpc =>
            \/ bpc = "notstarted" /\ bpc' = "running" /\ mpc = "main"
            \/ bpc = "running" /\ bpc' \in {"returned", "panicked"}]_vars

\* A Linux dispatch returned Ok after its body returned.
C39_Witness ==
    /\ backend = "linux"
    /\ dispatchResult = Ok
    /\ bpc = "returned"
    /\ bodyArgs = NoneNone

(***************************************************************************)
(* C40. Every status report carries the same fixed fields (own-process     *)
(* service type, exit codes 0, check point 0) and the same set of accepted *)
(* controls; that set covers every control the handler of the flavour      *)
(* turns into an event (Pause and Continue included where the handler      *)
(* handles them); the wait hint is non-zero only for StopPending.          *)
(***************************************************************************)
\* The SERVICE_ACCEPT_ flag under which the OS sends a control.
AcceptFlag(control) ==
    CASE control = "SERVICE_CONTROL_STOP" -> "SERVICE_ACCEPT_STOP"
      [] control = "SERVICE_CONTROL_SHUTDOWN" -> "SERVICE_ACCEPT_SHUTDOWN"
      [] control \in {"SERVICE_CONTROL_PAUSE", "SERVICE_CONTROL_CONTINUE"} ->
            "SERVICE_ACCEPT_PAUSE_CONTINUE"
      [] control = "SERVICE_CONTROL_SESSIONCHANGE" ->
            "SERVICE_ACCEPT_SESSIONCHANGE"
      [] control = "SERVICE_CONTROL_PARAMCHANGE" -> "SERVICE_ACCEPT_PARAMCHANGE"
      [] control = "SERVICE_CONTROL_POWEREVENT" -> "SERVICE_ACCEPT_POWEREVENT"
      [] OTHER -> "none"

\* The flags of the controls the handler of flavour fl turns into events.
FlagsHandled(fl) ==
    {AcceptFlag(sig.control) :
        sig \in {x \in AllSignals : HandlerBranch(fl, x) \in {"stop", "send"}}}

FixedFields(r) ==
    /\ r.dwServiceType = "SERVICE_WIN32_OWN_PROCESS"
    /\ r.dwWin32ExitCode = 0
    /\ r.dwServiceSpecificExitCode = 0
    /\ r.dwCheckPoint = 0

C40_StatusFields ==
    \A i \in 1..Len(log) :
        /\ FixedFields(log[i])
        /\ log[i].dwControlsAccepted = log[1].dwControlsAccepted
        /\ log[i].wait_hint # 0 => log[i].state = "SERVICE_STOP_PENDING"
        /\ FlagsHandled(flavor) \subseteq log[i].dwControlsAccepted

====
